---------------------------- MODULE Spec2Model ----------------------------
(***************************************************************************)
(* A model of the event-detection core of src/src/Catalog/Catalog.py:      *)
(*   Datastream.findgaps / Datastream.interpolate   (gap filling)          *)
(*   Picks.lls_detection                            (window normalisation) *)
(*   Picks.merge                                    (outer join, smoothing)*)
(*   Picks.on_off_list / Picks.no_data_csv          (no-data report)       *)
(*   Events.pick_events / Events.make_catalog       (picking and culling)  *)
(*                                                                         *)
(* Each stage is a method of an object whose fields are the variables of   *)
(* its group below.  A stage is checked under its own specification, whose *)
(* Init draws the object as constructed from bounded sets and whose        *)
(* actions are the method calls; the variables of the other stages stay at *)
(* their idle values.                                                      *)
(*                                                                         *)
(* Conventions.  Python positions are 0-based, sequences here are 1-based: *)
(* position p here is index p-1 in the source.  Timestamps are integers    *)
(* (seconds).  Floating-point values are integers of a small unit; a       *)
(* missing value (NaN, None) is the empty tuple and a number v is <<v>>.   *)
(***************************************************************************)
EXTENDS Integers, Sequences, FiniteSets, TLC

VARIABLES
    \* ---- Datastream (one station) ----
    interpolation_time,  \* self.interpolation_time
    data,                \* self.data: sequence of samples [time, x]
    starts,              \* self.starts
    ends,                \* self.ends
    gaps,                \* self.gaps
    loaded,              \* history: self.data as built by the constructor
    max_gap_len,         \* history: the argument of the findgaps call
    dsPc,                \* "idle" | "loaded" | "done"
    \* ---- Picks ----
    stas,                \* self.stas: the stations, records of the fields a stage reads
    \* ---- Picks.lls_detection ----
    increment,           \* the local (and parameter) increment
    slide,               \* the local (and parameter) slide
    z,                   \* the station the loop is at
    used,                \* per station reached: the window length and step its runs are cut with
    windows,             \* per station done: the local averaging_pts of each run it appended
    llsErr,              \* the message of the exception raised, or "none"
    increment0,          \* history: the increment the caller passed
    slide0,              \* history: the slide the caller passed
    llsPc,               \* "idle" | "loop" | "done" | "raised"
    \* ---- Picks.merge ----
    merged,              \* the table merge returns (None before, and when it raises)
    mergeErr,            \* the exception merge raised, or "none"
    mgPc,                \* "idle" | "ready" | "done"
    \* ---- Picks.no_data_csv ----
    sorted,              \* the argument sorted: the on/off list of on_off_list
    min_sta,             \* the argument min_sta
    df_no_data,          \* the table returned: [start, end] (None before, and when it raises)
    ndErr,               \* the exception no_data_csv raised, or "none"
    ndPc,                \* "idle" | "ready" | "listed" | "done"
    \* ---- Events (self.merged is the variable merged) ----
    active_stas,         \* the argument active_stas of pick_events
    hr_off,              \* the argument hr_off of pick_events, as hr_off * 3600 (seconds)
    temp_event,          \* the local temp_event: the mask before padding
    thresh,              \* the array pick_events returns
    cull_time,           \* the argument cull_time of make_catalog (minutes)
    cull_dist,           \* the argument cull_dist of make_catalog
    catalog,             \* the local catalog: the candidate events (None where unset)
    rev_catalog,         \* the list make_catalog returns (None before, and when it raises)
    catErr,              \* the exception make_catalog raised, or "none"
    evPc,                \* "idle" | "ready" | "picked" | "catalogued"
    \* ---- CatalogWrapper.full_catalog_run ----
    call,                \* the call: its positional arguments and its keyword arguments
    stages,              \* the stage calls that completed, in order
    wrapErr,             \* the exception the call raised, or "none"
    wrapRet,             \* the list returned (None before, and when it raises)
    wrapPc,              \* "idle" | "called" | "done"
    \* ---- set_interpolation_time ----
    sit                  \* the call of set_interpolation_time: sta, years and,
                         \* once it has returned, interpolation_time and run

dsVars == <<interpolation_time, data, starts, ends, gaps, loaded, max_gap_len, dsPc>>
llsVars == <<increment, slide, z, used, windows, llsErr, increment0, slide0, llsPc>>
mgVars == <<merged, mergeErr, mgPc>>
ndVars == <<sorted, min_sta, df_no_data, ndErr, ndPc>>
evVars == <<active_stas, hr_off, temp_event, thresh, cull_time, cull_dist,
            catalog, rev_catalog, catErr, evPc>>

wrVars == <<call, stages, wrapErr, wrapRet, wrapPc>>

sitVars == <<sit>>

vars == <<dsVars, stas, llsVars, mgVars, ndVars, evVars, wrVars, sitVars>>

(***************************************************************************)
(* Missing values and small helpers                                        *)
(***************************************************************************)
NaN == <<>>
Num(v) == <<v>>
IsNaN(c) == c = NaN
Val(c) == c[1]

Range(s) == {s[i] : i \in DOMAIN s}

RECURSIVE SumSeq(_)
SumSeq(s) == IF s = <<>> THEN 0 ELSE Head(s) + SumSeq(Tail(s))

\* The positions of s, in order, whose element satisfies Test.
Positions(s, Test(_)) ==
    LET F[i \in 0..Len(s)] ==
            IF i = 0 THEN <<>>
            ELSE IF Test(i) THEN Append(F[i - 1], i) ELSE F[i - 1]
    IN  F[Len(s)]

\* itertools.chain.from_iterable(runs)
RECURSIVE Chain(_)
Chain(runs) == IF runs = <<>> THEN <<>> ELSE Head(runs) \o Chain(Tail(runs))

\* All sequences over S of a length in lo..hi.
SeqsOf(S, lo, hi) == UNION {[1..n -> S] : n \in lo..hi}

(***************************************************************************)
(* Datastream.interpolate and Datastream.findgaps                          *)
(***************************************************************************)
Sample(t, x) == [time |-> t, x |-> x]

\* pd.date_range(start, end, periods): periods evenly spaced timestamps, the
\* first at start and the last at end (periods >= 2 here).
DateRange(start, end, periods) ==
    [k \in 1..periods |-> start + ((k - 1) * (end - start)) \div (periods - 1)]

\* s[1:-1]
DropEnds(s) == SubSeq(s, 2, Len(s) - 1)

\* Series.interpolate(method="linear", limit=limit) on one column: pandas
\* treats the rows as equally spaced; a missing cell with a value before it
\* is filled when it is among the first `limit` cells of its missing span;
\* after the last value the fill repeats that value; cells before the first
\* value stay missing.
LinearInterpolate(col, limit) ==
    [p \in DOMAIN col |->
        IF ~IsNaN(col[p]) THEN col[p]
        ELSE LET before == {q \in 1..(p - 1) : ~IsNaN(col[q])}
                 after  == {q \in (p + 1)..Len(col) : ~IsNaN(col[q])}
             IN  IF before = {} THEN NaN
                 ELSE LET pa == CHOOSE q \in before : \A r \in before : r <= q
                      IN  IF p - pa > limit THEN NaN
                          ELSE IF after = {} THEN col[pa]
                          ELSE LET pb == CHOOSE q \in after : \A r \in after : q <= r
                               IN  Num(Val(col[pa])
                                       + ((Val(col[pb]) - Val(col[pa])) * (p - pa))
                                             \div (pb - pa))]

\* DataFrame.interpolate(method="linear") of the sample table: every numeric
\* column, no limit.
FrameInterpolate(d) ==
    LET xs == LinearInterpolate([p \in DOMAIN d |-> d[p].x], Len(d))
    IN  [p \in DOMAIN d |-> [d[p] EXCEPT !.x = xs[p]]]

\* Datastream.interpolate(prior_date, date, gap, i, interpolate_elements),
\* reading self.data = d.  i is the position of the first sample after the
\* gap.
Interpolate(d, prior_date, date, i, interpolate_elements) ==
    LET times  == DropEnds(DateRange(prior_date, date, interpolate_elements + 1))
        insert == [k \in 1..(interpolate_elements - 1) |-> Sample(times[k], NaN)]
    IN  FrameInterpolate(SubSeq(d, 1, i - 1) \o insert \o SubSeq(d, i, Len(d)))

\* line 346-347: the pair is a gap when it is longer than the interval + 1 s
IsGap(dt, I) == dt > I + 1

\* line 352: a gap is filled when it is no longer than max_gap_len
InterpolatableMutant(gap, G) == gap < G
Interpolatable(gap, G) == gap <= G

\* line 355-357
InterpolateElements(gap, I) == gap \div I

\* The loop of findgaps over data.index, from position i on.  acc holds the
\* locals starts, ends, gaps and _data (has_data = FALSE is _data = None).
\* Every interpolate call reads self.data, which the loop never assigns.
RECURSIVE FindGapsLoop(_, _, _, _, _)
FindGapsLoop(d, I, G, i, acc) ==
    IF i > Len(d) THEN acc
    ELSE LET prior_date == d[i - 1].time
             date       == d[i].time
             gap        == date - prior_date
         IN  IF ~IsGap(gap, I) THEN FindGapsLoop(d, I, G, i + 1, acc)
             ELSE IF Interpolatable(gap, G)
                  THEN FindGapsLoop(d, I, G, i + 1,
                          [acc EXCEPT !.has_data = TRUE,
                                      !.new_data = Interpolate(d, prior_date, date, i,
                                                       InterpolateElements(gap, I))])
                  ELSE FindGapsLoop(d, I, G, i + 1,
                          [acc EXCEPT !.starts = Append(@, date),
                                      !.ends   = Append(@, prior_date),
                                      !.gaps   = Append(@, gap)])

FindGapsResultMutant(d, I, G) ==
    LET acc == FindGapsLoop(d, I, G, 2,
                   [starts |-> <<d[1].time>>, ends |-> <<>>, gaps |-> <<>>,
                    has_data |-> FALSE, new_data |-> <<>>])
    IN  [data   |-> IF acc.has_data THEN acc.new_data ELSE d,
         starts |-> acc.starts,
         ends   |-> IF acc.ends = <<>> THEN <<d[Len(d)].time>> ELSE acc.ends,
         gaps   |-> acc.gaps]
\* findgaps(max_gap_len) on self.data = d: the data, starts, ends and gaps it
\* assigns
FindGapsResult(d, I, G) ==
    LET acc == FindGapsLoop(d, I, G, 2,
                   [starts |-> <<d[1].time>>, ends |-> <<>>, gaps |-> <<>>,
                    has_data |-> FALSE, new_data |-> <<>>])
    IN  [data   |-> IF acc.has_data THEN acc.new_data ELSE d,
         starts |-> acc.starts,
         ends   |-> Append(acc.ends, d[Len(d)].time),
         gaps   |-> acc.gaps]

\* ---- bounds and input sets of the Datastream specification ----
MaxSamples == 4
SampleDeltas == {15, 16, 20, 45, 60, 135}
SampleXs == {0, 12}
Intervals == {15, 30}
MaxGapLens == {45, 120}

\* A time-ascending series: its first timestamp is 0, the following ones
\* follow by deltas of SampleDeltas.
SeriesOf(deltas, xs) ==
    [p \in 1..Len(xs) |->
        Sample(SumSeq(SubSeq(deltas, 1, p - 1)), Num(xs[p]))]

IdleDs ==
    /\ interpolation_time = 0
    /\ data = <<>>
    /\ starts = <<>>
    /\ ends = <<>>
    /\ gaps = <<>>
    /\ loaded = <<>>
    /\ max_gap_len = 0
    /\ dsPc = "idle"

IdleLls ==
    /\ windows = <<>>
    /\ increment = 0
    /\ slide = 0
    /\ z = 0
    /\ used = <<>>
    /\ llsErr = "none"
    /\ increment0 = 0
    /\ slide0 = 0
    /\ llsPc = "idle"

None == <<>>

IdleMg ==
    /\ merged = None
    /\ mergeErr = "none"
    /\ mgPc = "idle"

IdleNd ==
    /\ sorted = <<>>
    /\ min_sta = 0
    /\ df_no_data = None
    /\ ndErr = "none"
    /\ ndPc = "idle"

IdleEv ==
    /\ active_stas = 0
    /\ hr_off = 0
    /\ temp_event = <<>>
    /\ thresh = <<>>
    /\ cull_time = 0
    /\ cull_dist = 0
    /\ catalog = <<>>
    /\ rev_catalog = None
    /\ catErr = "none"
    /\ evPc = "idle"

IdleSit == sit = None

IdleWr ==
    /\ call = None
    /\ stages = <<>>
    /\ wrapErr = "none"
    /\ wrapRet = None
    /\ wrapPc = "idle"

\* Datastream.__init__
InitDs ==
    /\ interpolation_time \in Intervals
    /\ \E n \in 1..MaxSamples :
         \E deltas \in [1..(n - 1) -> SampleDeltas], xs \in [1..n -> SampleXs] :
            data = SeriesOf(deltas, xs)
    /\ loaded = data
    /\ starts = <<>>
    /\ ends = <<>>
    /\ gaps = <<>>
    /\ max_gap_len = 0
    /\ dsPc = "loaded"
    /\ stas = <<>>
    /\ IdleLls
    /\ IdleMg
    /\ IdleNd
    /\ IdleEv
    /\ IdleWr
    /\ IdleSit

\* Datastream.findgaps(max_gap_len)
FindGaps ==
    /\ dsPc = "loaded"
    /\ \E G \in MaxGapLens :
         LET r == FindGapsResult(data, interpolation_time, G)
         IN  /\ data' = r.data
             /\ starts' = r.starts
             /\ ends' = r.ends
             /\ gaps' = r.gaps
             /\ max_gap_len' = G
    /\ dsPc' = "done"
    /\ UNCHANGED <<interpolation_time, loaded>>
    /\ UNCHANGED <<stas, llsVars, mgVars, ndVars, evVars, wrVars, sitVars>>

NextDs == FindGaps

SpecDs == InitDs /\ [][NextDs]_vars

\* ---- series with missing cells ----
\* The column of Sample stands for any numeric column of the sample table.
\* load() assigns dist only to a file of more than one row (line 260-269), so
\* after the concat of make_data_stream (line 150) the sample of a one-row
\* file has no dist value.
MissingDeltas == {15, 45, 135}
MissingCells == {NaN, Num(12)}

SeriesOfCells(deltas, cells) ==
    [p \in 1..Len(cells) |->
        Sample(SumSeq(SubSeq(deltas, 1, p - 1)), cells[p])]

\* Datastream.__init__ on files some of which hold one row
InitDsMissing ==
    /\ interpolation_time \in Intervals
    /\ \E n \in 1..MaxSamples :
         \E deltas \in [1..(n - 1) -> MissingDeltas], cells \in [1..n -> MissingCells] :
            data = SeriesOfCells(deltas, cells)
    /\ loaded = data
    /\ starts = <<>>
    /\ ends = <<>>
    /\ gaps = <<>>
    /\ max_gap_len = 0
    /\ dsPc = "loaded"
    /\ stas = <<>>
    /\ IdleLls
    /\ IdleMg
    /\ IdleNd
    /\ IdleEv
    /\ IdleWr
    /\ IdleSit

SpecDsMissing == InitDsMissing /\ [][NextDs]_vars

(***************************************************************************)
(* Claims about findgaps                                                   *)
(***************************************************************************)
\* The samples of d strictly between the timestamps lo and hi.
Between(d, lo, hi) == SelectSeq(d, LAMBDA s : lo < s.time /\ s.time < hi)

\* The adjacent pairs of the loaded series, named by the position k of the
\* earlier sample, and the length of each.
Pairs == 1..(Len(loaded) - 1)
PairDt(k) == loaded[k + 1].time - loaded[k].time
ShortGap(k) ==
    /\ PairDt(k) > interpolation_time + 1
    /\ PairDt(k) <= max_gap_len
LongGap(k) ==
    /\ PairDt(k) > interpolation_time + 1
    /\ PairDt(k) > max_gap_len

\* What the fill of pair k is to hold: floor(dt/I) - 1 samples, evenly spaced
\* in time, each x on the line between the two bounding samples.
ExpectedFill(k) ==
    LET n  == PairDt(k) \div interpolation_time
        a  == loaded[k]
        b  == loaded[k + 1]
    IN  [j \in 1..(n - 1) |->
            Sample(a.time + (j * PairDt(k)) \div n,
                   Num(Val(a.x) + ((Val(b.x) - Val(a.x)) * j) \div n))]

\* C1: after findgaps, EVERY pair of original samples with I+1 < dt <= G
\* holds exactly floor(dt/I)-1 new samples between its two samples, evenly
\* spaced and linearly interpolated, also when the series has several such
\* pairs.
C1_EveryShortGapFilled ==
    dsPc = "done" =>
        \A k \in Pairs :
            ShortGap(k) =>
                Between(data, loaded[k].time, loaded[k + 1].time) = ExpectedFill(k)

\* What the code does instead: only the last such pair is filled.
C1_LastShortGapFilled ==
    dsPc = "done" =>
        \A k \in Pairs :
            ShortGap(k) =>
                Between(data, loaded[k].time, loaded[k + 1].time)
                    = IF \E m \in Pairs : m > k /\ ShortGap(m)
                      THEN <<>> ELSE ExpectedFill(k)

\* two pairs with I+1 < dt <= G, the first of which needs samples
C1_Witness ==
    /\ dsPc = "done"
    /\ \E k, m \in Pairs :
          /\ k < m
          /\ ShortGap(k)
          /\ ShortGap(m)
          /\ ExpectedFill(k) # <<>>

C28_OrderAndSamplesKept ==
    dsPc = "done" =>
        /\ \A p, q \in DOMAIN data : p < q => data[p].time < data[q].time
        /\ \A k \in DOMAIN loaded : \E p \in DOMAIN data : data[p] = loaded[k]

(***************************************************************************)
(* Picks.lls_detection: the per-station normalisation of increment and     *)
(* slide and the divisibility check                                        *)
(***************************************************************************)
ReferenceInterval == 15

\* line 417
DividingFactor(sta) == sta.interpolation_time \div ReferenceInterval

\* line 418-419: the value is divided by the station's factor (a floor
\* division of positive integers) and assigned back to the SAME name, which
\* the next pass of the station loop reads.
Normalize(value, sta) == value \div DividingFactor(sta)

\* line 422
NotDivisible(inc, sl) == inc % sl # 0

NotAnInteger == "Increment / Slide not an Integer"

\* ---- the runs of one station (line 426-486) ----

\* A row of sta.data, as the Datastream leaves it
Row(t, x, y, elevation) == [time |-> t, x |-> x, y |-> y, elevation |-> elevation]

\* sta.data.loc[sta.data["time"] == t].index[0]: the zero-based index of the
\* first row of that time
IndexOf(d, t) == (CHOOSE p \in DOMAIN d :
                     d[p].time = t /\ \A q \in 1..(p - 1) : d[q].time # t) - 1

\* s[lo:hi] for 0 <= lo: the entries of zero-based index lo .. hi - 1, as far
\* as s has them
PySlice(s, lo, hi) ==
    LET h == IF hi < Len(s) THEN hi ELSE Len(s)
        l == IF lo < Len(s) THEN lo ELSE Len(s)
    IN  [k \in 1..(IF h > l THEN h - l ELSE 0) |-> s[l + k]]

\* The floats of the residual arrays.  An entry of averaging_pts is the
\* residue scipy.linalg.lstsq returned for the rows [lo, hi) of the run, or
\* the 0 that np.zeros put there.
LstsqRes(lo, hi) == [computed |-> TRUE, lo |-> lo, hi |-> hi]
ZeroPt == [computed |-> FALSE, lo |-> 0, hi |-> 0]

\* An entry of residual_arr: avg / num with avg the sum of the given entries
\* of averaging_pts, or the 0 that np.zeros put there.
AvgOf(pts, num) == Num([terms |-> pts, num |-> num])
ZeroRes == Num([terms |-> <<>>, num |-> 0])

\* np.average(residual_arr)
Average(residual_arr) == Num([average_of |-> residual_arr])

NonEmptyRunMutant(length) == length >= 0
\* line 431
NonEmptyRun(length) == length # 0

AveragingPtsMutant(length, inc, sl) ==
    [k \in 1..(length \div sl) |->
        LstsqRes((k - 1) * sl,
                 IF (k - 1) * sl + inc < length THEN (k - 1) * sl + inc ELSE length)]
\* line 453-465: averaging_pts after the window loop; window i is cut as
\* [start_pos:end_pos] from the run's length rows
AveragingPts(length, inc, sl) ==
    LET len_slide == length \div sl
        inc_slide == inc \div sl
    IN  [k \in 1..len_slide |->
            LET i == k - 1
                start_pos == i * sl
                end_pos == start_pos + inc
            IN  IF i < len_slide - inc_slide
                THEN LstsqRes(start_pos, IF end_pos < length THEN end_pos ELSE length)
                ELSE ZeroPt]

\* line 462-463: lstsq returns an empty residue array for a window of at most
\* two rows, and averaging_pts[i] = res then raises
WindowTooShort(pts) == \E k \in DOMAIN pts : pts[k].computed /\ pts[k].hi - pts[k].lo <= 2

\* line 476
WarmedUp(i, num) == i > num

\* line 468-482: residual_arr after the step loop; step i writes the rows
\* [i * slide, i * slide + increment) when WarmedUp, so a row keeps what the
\* last such step wrote
ResidualArr(length, inc, sl, pts) ==
    LET num == inc \div sl
    IN  [k \in 1..length |->
            LET row == k - 1
                steps == {i \in 0..((length \div sl) - 1) :
                             /\ WarmedUp(i, num)
                             /\ i * sl <= row
                             /\ row < i * sl + inc}
            IN  IF steps = {} THEN ZeroRes
                ELSE LET i == CHOOSE m \in steps : \A n \in steps : n <= m
                     IN  AvgOf([j \in 1..num |-> pts[i - num + j]], num)]

ResidualAvgMutant(residual_arr) ==
    [k \in DOMAIN residual_arr |->
        Average(SelectSeq(residual_arr, LAMBDA r : r # ZeroRes))]
\* line 484-486: np.ones(len(residual_arr)) * np.average(residual_arr)
ResidualAvg(residual_arr) ==
    [k \in DOMAIN residual_arr |-> Average(residual_arr)]

\* line 426-486 for one run: what it appends to the six lists, or the error
RunArrays(sta, st, en, inc, sl) ==
    LET start == IndexOf(sta.data, st)
        end == IndexOf(sta.data, en)
        length == end - start
        rows == PySlice(sta.data, start, end)
        pts == AveragingPts(length, inc, sl)
        residual_arr == ResidualArr(length, inc, sl, pts)
    IN  IF ~NonEmptyRun(length) THEN [err |-> "none", skip |-> TRUE]
        ELSE IF WindowTooShort(pts) THEN [err |-> "ValueError", skip |-> TRUE]
        ELSE [err |-> "none", skip |-> FALSE,
              time_arr |-> [k \in DOMAIN rows |-> rows[k].time],
              x_arr |-> [k \in DOMAIN rows |-> rows[k].x],
              y_arr |-> [k \in DOMAIN rows |-> rows[k].y],
              z_arr |-> [k \in DOMAIN rows |-> rows[k].elevation],
              averaging_pts |-> pts,
              residual_arr |-> residual_arr,
              residual_avg |-> ResidualAvg(residual_arr)]

\* the loop over zip(sta.starts, sta.ends), from run k on
RECURSIVE RunLoop(_, _, _, _, _)
RunLoop(sta, inc, sl, k, acc) ==
    IF k > Len(sta.starts) \/ k > Len(sta.ends) THEN acc
    ELSE LET r == RunArrays(sta, sta.starts[k], sta.ends[k], inc, sl)
         IN  IF r.err # "none" THEN [acc EXCEPT !.err = r.err]
             ELSE IF r.skip THEN RunLoop(sta, inc, sl, k + 1, acc)
             ELSE RunLoop(sta, inc, sl, k + 1,
                     [err |-> "none",
                      times |-> Append(acc.times, r.time_arr),
                      xs |-> Append(acc.xs, r.x_arr),
                      ys |-> Append(acc.ys, r.y_arr),
                      zs |-> Append(acc.zs, r.z_arr),
                      windows |-> Append(acc.windows, r.averaging_pts),
                      residuals |-> Append(acc.residuals, r.residual_arr),
                      residual_avg |-> Append(acc.residual_avg, r.residual_avg)])

\* line 409-414 and 426-486: the lists of one station
StationLists(sta, inc, sl) ==
    RunLoop(sta, inc, sl, 1,
            [err |-> "none", times |-> <<>>, xs |-> <<>>, ys |-> <<>>, zs |-> <<>>,
             windows |-> <<>>, residuals |-> <<>>, residual_avg |-> <<>>])

\* line 487-492
WithLists(sta, l) ==
    [sta EXCEPT !.residual_avg = l.residual_avg, !.residuals = l.residuals,
                !.xs = l.xs, !.ys = l.ys, !.zs = l.zs, !.times = l.times]

\* A Datastream after findgaps whose runs hold lens[k] rows each, the rows of a
\* run one interval apart and the runs ten intervals apart
RECURSIVE RunStart(_, _, _)
RunStart(lens, iv, k) ==
    IF k = 1 THEN 0 ELSE RunStart(lens, iv, k - 1) + (lens[k - 1] - 1) * iv + 10 * iv

StationOf(name, iv, lens) ==
    LET time_of(k, j) == RunStart(lens, iv, k) + (j - 1) * iv
        run(k) == [j \in 1..lens[k] |->
                       Row(time_of(k, j), Num(time_of(k, j) \div 15), Num(0), Num(100))]
    IN  [name |-> name, interpolation_time |-> iv, years |-> <<"2010", "2011">>,
         data |-> Chain([k \in DOMAIN lens |-> run(k)]),
         starts |-> [k \in DOMAIN lens |-> time_of(k, 1)],
         ends |-> [k \in DOMAIN lens |-> time_of(k, lens[k])],
         times |-> <<>>, xs |-> <<>>, ys |-> <<>>, zs |-> <<>>,
         residuals |-> <<>>, residual_avg |-> <<>>]

\* ---- bounds and input sets of the lls_detection specification ----
MaxStas == 2
StaNames == <<"la09", "la01", "la05", "la02">>
Increments == {9, 12, 600}
Slides == {1, 4, 17, 25}

\* Picks(stas) and the call lls_detection(increment, slide)
InitLls ==
    /\ \E n \in 1..MaxStas :
         \E ivs \in [1..n -> Intervals] :
            stas = [i \in 1..n |-> StationOf(StaNames[i], ivs[i], <<2>>)]
    /\ windows = <<>>
    /\ increment0 \in Increments
    /\ slide0 \in Slides
    /\ increment = increment0
    /\ slide = slide0
    /\ z = 1
    /\ used = <<>>
    /\ llsErr = "none"
    /\ llsPc = "loop"
    /\ IdleDs
    /\ IdleMg
    /\ IdleNd
    /\ IdleEv
    /\ IdleWr
    /\ IdleSit

\* One pass of the station loop (line 406-492) for station z: normalise,
\* check, then cut the station's runs with the window length and step now
\* held by increment and slide.
LlsStation ==
    /\ llsPc = "loop"
    /\ LET sta == stas[z]
           inc == Normalize(increment, sta)
           sl  == Normalize(slide, sta)
       IN  /\ increment' = inc
           /\ slide' = sl
           /\ IF sl = 0
              THEN \* line 420: increment // slide
                   /\ llsErr' = "ZeroDivisionError"
                   /\ llsPc' = "raised"
                   /\ UNCHANGED <<used, z, stas, windows>>
              ELSE IF NotDivisible(inc, sl)
              THEN /\ llsErr' = NotAnInteger
                   /\ llsPc' = "raised"
                   /\ UNCHANGED <<used, z, stas, windows>>
              ELSE \E l \in {StationLists(sta, inc, sl)} :
                   /\ used' = Append(used, [increment |-> inc, slide |-> sl,
                                            inc_slide |-> inc \div sl])
                   /\ IF l.err # "none"
                      THEN /\ llsErr' = l.err
                           /\ llsPc' = "raised"
                           /\ UNCHANGED <<z, stas, windows>>
                      ELSE /\ stas' = [stas EXCEPT ![z] = WithLists(sta, l)]
                           /\ windows' = Append(windows, l.windows)
                           /\ z' = z + 1
                           /\ llsPc' = IF z = Len(stas) THEN "done" ELSE "loop"
                           /\ UNCHANGED llsErr
    /\ UNCHANGED <<increment0, slide0>>
    /\ UNCHANGED <<dsVars, mgVars, ndVars, evVars, wrVars, sitVars>>

NextLls == LlsStation

SpecLls == InitLls /\ [][NextLls]_vars

\* ---- stations with runs long enough for windows and averaged steps ----
MaxLlsRuns == 2
RunLens == {1, 4, 11, 17}
RunIncrements == {6, 8}
RunSlides == {2, 4}
RunStaNames == <<"la01", "la09">>

\* Picks(stas) on Datastreams after findgaps, and the call
\* lls_detection(increment, slide)
InitLlsRuns ==
    /\ \E n \in 1..Len(RunStaNames) :
         \E ivs \in [1..n -> Intervals] :
            \E lens \in SeqsOf(RunLens, 1, MaxLlsRuns) :
               stas = [i \in 1..n |-> StationOf(RunStaNames[i], ivs[i], lens)]
    /\ windows = <<>>
    /\ increment0 \in RunIncrements
    /\ slide0 \in RunSlides
    /\ increment = increment0
    /\ slide = slide0
    /\ z = 1
    /\ used = <<>>
    /\ llsErr = "none"
    /\ llsPc = "loop"
    /\ IdleDs
    /\ IdleMg
    /\ IdleNd
    /\ IdleEv
    /\ IdleWr
    /\ IdleSit

NextLlsRuns == LlsStation

SpecLlsRuns == InitLlsRuns /\ [][NextLlsRuns]_vars

(***************************************************************************)
(* Claims about the runs of a station                                      *)
(***************************************************************************)
\* the stations whose lists lls_detection has assigned
DoneStas == 1..Len(windows)

\* the runs of a station whose start and end are different rows, in order
RealRuns(s) ==
    SelectSeq([k \in DOMAIN stas[s].starts |-> k],
              LAMBDA k : stas[s].starts[k] # stas[s].ends[k])

\* the rows of sta.data from time st through time en, both included
RowsThrough(s, st, en) ==
    SelectSeq(stas[s].data, LAMBDA r : st <= r.time /\ r.time <= en)

C16_OneEntryPerSampleOfRun ==
    \A s \in DoneStas :
        \A j \in DOMAIN RealRuns(s) :
            LET k == RealRuns(s)[j]
                rows == RowsThrough(s, stas[s].starts[k], stas[s].ends[k])
            IN  /\ j <= Len(stas[s].times)
                /\ stas[s].times[j] = [i \in DOMAIN rows |-> rows[i].time]
                /\ \A f \in {"xs", "ys", "zs", "residuals", "residual_avg"} :
                      Len(stas[s][f][j]) = Len(rows)

\* C20: for a run whose arrays hold N rows, exactly
\* max(0, floor(N / slide) - increment / slide) window residuals are computed,
\* and window i is fitted to exactly the rows [i * slide, i * slide + increment),
\* all of them rows of the run.
C20_WindowsInsideRun ==
    \A s \in DoneStas :
        \A j \in DOMAIN windows[s] :
            LET N == Len(stas[s].residuals[j])
                inc == used[s].increment
                sl == used[s].slide
                expected == IF N \div sl > inc \div sl THEN (N \div sl) - (inc \div sl) ELSE 0
                computed == {k \in DOMAIN windows[s][j] : windows[s][j][k].computed}
            IN  /\ computed = 1..expected
                /\ \A k \in computed :
                      /\ windows[s][j][k].lo = (k - 1) * sl
                      /\ windows[s][j][k].hi = (k - 1) * sl + inc
                      /\ windows[s][j][k].hi <= N

\* lls_detection has finished a station with a run for which it fitted three
\* windows or more.
C20_Witness ==
    \E s \in DoneStas : \E j \in DOMAIN windows[s] :
        Cardinality({k \in DOMAIN windows[s][j] : windows[s][j][k].computed}) >= 3

\* the value of a per-sample residual, and whether a step wrote it
ResOf(s, j, row) == stas[s].residuals[j][row + 1][1]

Averaged(s, j, row) == ResOf(s, j, row).num # 0

\* C15: every per-sample residual that holds an average is the mean of
\* exactly increment / slide window residuals, each of them computed by a
\* fit; no zero-initialised entry of the window array enters an average.
C15_OnlyComputedWindowsAveraged ==
    \A s \in DoneStas :
        \A j \in DOMAIN stas[s].residuals :
            \A row \in 0..(Len(stas[s].residuals[j]) - 1) :
                Averaged(s, j, row) =>
                    /\ ResOf(s, j, row).num = used[s].inc_slide
                    /\ Len(ResOf(s, j, row).terms) = used[s].inc_slide
                    /\ \A t \in DOMAIN ResOf(s, j, row).terms :
                          ResOf(s, j, row).terms[t].computed

\* C27: for every run of a done station, the residual-baseline array has the
\* length of the run's per-sample residual array and every entry of it is the
\* mean of that run's whole residual array, the zero entries of the warm-up
\* included.
C27_BaselineIsRunMean ==
    \A s \in DoneStas :
        /\ Len(stas[s].residual_avg) = Len(stas[s].residuals)
        /\ \A j \in DOMAIN stas[s].residuals :
              /\ Len(stas[s].residual_avg[j]) = Len(stas[s].residuals[j])
              /\ \A k \in DOMAIN stas[s].residual_avg[j] :
                    stas[s].residual_avg[j][k] = Average(stas[s].residuals[j])

\* a done station with two runs of different residual arrays, one of which
\* holds both warm-up zeros and averages
C27_Witness ==
    \E s \in DoneStas :
        /\ Len(stas[s].residuals) = 2
        /\ stas[s].residuals[1] # stas[s].residuals[2]
        /\ stas[s].residual_avg[1][1] # stas[s].residual_avg[2][1]
        /\ \E j \in DOMAIN stas[s].residuals :
              \E a, b \in 0..(Len(stas[s].residuals[j]) - 1) :
                 ~Averaged(s, j, a) /\ Averaged(s, j, b)

\* C19: with n = increment / slide, the rows below index increment get
\* residual 0, and the rows of step n, [n * slide, (n + 1) * slide), get the
\* average of the window residuals 0 .. n-1 when the run has that step and
\* those windows.
C19_WarmUpEndsAtStepN ==
    \A s \in DoneStas :
        \A j \in DOMAIN stas[s].residuals :
            LET N == Len(stas[s].residuals[j])
                inc == used[s].increment
                sl == used[s].slide
                n == used[s].inc_slide
            IN  /\ \A row \in 0..(N - 1) : row < inc => ~Averaged(s, j, row)
                /\ (/\ (N \div sl) > n
                    /\ \A k \in 1..n : k <= Len(windows[s][j]) /\ windows[s][j][k].computed)
                   => \A row \in (n * sl)..((n + 1) * sl - 1) :
                         /\ Averaged(s, j, row)
                         /\ ResOf(s, j, row).terms = [k \in 1..n |-> windows[s][j][k]]

(***************************************************************************)
(* Claims about the normalisation                                          *)
(***************************************************************************)
\* The window length and step of station s computed from the values the
\* caller passed.
OwnIncrement(s) == increment0 \div (stas[s].interpolation_time \div 15)
OwnSlide(s) == slide0 \div (stas[s].interpolation_time \div 15)

\* C2: when, for some station, the increment and slide normalised for that
\* station's interval are not divisible, the call raises the exception with
\* the message "Increment / Slide not an Integer".
C2_NotDivisibleAlwaysRaises ==
    (/\ llsPc \in {"done", "raised"}
     /\ \E s \in DOMAIN stas : OwnSlide(s) > 0 /\ OwnIncrement(s) % OwnSlide(s) # 0)
        => llsErr = "Increment / Slide not an Integer"

\* C7: every station's runs are cut with floor(increment / (interval // 15))
\* and floor(slide / (interval // 15)) of the caller's increment and slide,
\* whatever its place in the list and whatever the other stations' intervals.
C7_OwnWindowPerStation ==
    \A s \in DOMAIN used :
        /\ used[s].increment = OwnIncrement(s)
        /\ used[s].slide = OwnSlide(s)

(***************************************************************************)
(* Tables (pandas DataFrames) and Picks.merge                              *)
(*                                                                         *)
(* A table is [time, cols, cell]: the time column, the other columns'      *)
(* names in order, and for each name its cells, one per row.  A column     *)
(* name is <<prefix, field>>: the column sta.name + "x" is <<name, "x">>.  *)
(***************************************************************************)
Col(prefix, field) == <<prefix, field>>

NumRows(t) == Len(t.time)

\* line 564-572: the table of one station
StationFrame(sta) ==
    [time |-> Chain(sta.times),
     cols |-> <<Col(sta.name, "x"), Col(sta.name, "y"),
                Col(sta.name, "res"), Col(sta.name, "res_avg")>>,
     cell |-> (Col(sta.name, "x") :> Chain(sta.xs))
              @@ (Col(sta.name, "y") :> Chain(sta.ys))
              @@ (Col(sta.name, "res") :> Chain(sta.residuals))
              @@ (Col(sta.name, "res_avg") :> Chain(sta.residual_avg))]

\* The triples <<t, l, r>> of a set, as a sequence in ascending order of t,
\* then l, then r.
TripleBefore(a, b) ==
    \/ a[1] < b[1]
    \/ a[1] = b[1] /\ a[2] < b[2]
    \/ a[1] = b[1] /\ a[2] = b[2] /\ a[3] <= b[3]

RECURSIVE SortTriples(_)
SortTriples(S) ==
    IF S = {} THEN <<>>
    ELSE LET m == CHOOSE a \in S : \A b \in S : TripleBefore(a, b)
         IN  <<m>> \o SortTriples(S \ {m})

\* The rows of pd.merge(left, right, how="outer", on="time"), each <<time,
\* row of left or 0, row of right or 0>>: one row per pair of a left and a
\* right row of equal time, and one per row of either side that the other
\* side has no row for.
JoinRowsLeftMutant(lt, rt) ==
    {<<lt[l], l, r>> : <<l, r>> \in {q \in (DOMAIN lt) \X (DOMAIN rt) : lt[q[1]] = rt[q[2]]}}
    \cup {<<lt[l], l, 0>> : l \in {q \in DOMAIN lt : \A r \in DOMAIN rt : rt[r] # lt[q]}}
JoinRowsMutant(lt, rt) ==
    {<<lt[l], l, 0>> : l \in DOMAIN lt} \cup {<<rt[r], 0, r>> : r \in DOMAIN rt}
JoinRows(lt, rt) ==
    {<<lt[l], l, r>> : <<l, r>> \in {q \in (DOMAIN lt) \X (DOMAIN rt) : lt[q[1]] = rt[q[2]]}}
    \cup {<<lt[l], l, 0>> : l \in {q \in DOMAIN lt : \A r \in DOMAIN rt : rt[r] # lt[q]}}
    \cup {<<rt[r], 0, r>> : r \in {q \in DOMAIN rt : \A l \in DOMAIN lt : lt[l] # rt[q]}}

\* pd.merge(left, right, how="outer", on="time"): a side with no row at a
\* row's time has the missing marker in all its columns.
OuterMerge(left, right) ==
    LET rows == SortTriples(JoinRows(left.time, right.time))
        take(side, c, p) == IF p = 0 THEN NaN ELSE side.cell[c][p]
    IN  [time |-> [k \in DOMAIN rows |-> rows[k][1]],
         cols |-> left.cols \o right.cols,
         cell |-> [c \in Range(left.cols) \cup Range(right.cols) |->
                     [k \in DOMAIN rows |->
                         IF c \in Range(left.cols)
                         THEN take(left, c, rows[k][2])
                         ELSE take(right, c, rows[k][3])]]]

\* line 584: merged.sort_values(by="time", ignore_index=True)
SortValues(t) ==
    LET order == SortTriples({<<t.time[p], p, 0>> : p \in DOMAIN t.time})
    IN  [time |-> [k \in DOMAIN order |-> order[k][1]],
         cols |-> t.cols,
         cell |-> [c \in DOMAIN t.cell |-> [k \in DOMAIN order |-> t.cell[c][order[k][2]]]]]

\* line 556-579: the loop over the stations, from station i on
RECURSIVE MergeLoop(_, _, _)
MergeLoop(ss, i, acc) ==
    IF i > Len(ss) THEN acc
    ELSE LET df == StationFrame(ss[i])
         IN  MergeLoop(ss, i + 1, IF acc = None THEN df ELSE OuterMerge(acc, df))

\* line 586: the test that guards the smoothing
SmoothingApplies(t) == Col("la00", "res") \in Range(t.cols)

\* line 587-591: the columns smoothed
SmoothedCols == <<Col("la09", "res"), Col("la09", "res_avg"), Col("la09", "x")>>

\* line 587-591: each is read from the table (a KeyError when the table has
\* no such column) and replaced by its interpolation with limit=1
Smooth(t) ==
    [t EXCEPT !.cell = [c \in DOMAIN t.cell |->
                           IF c \in Range(SmoothedCols)
                           THEN LinearInterpolate(t.cell[c], 1)
                           ELSE t.cell[c]]]

\* Picks.merge: [err, table]
MergeResult(ss) ==
    LET after_sort == SortValues(MergeLoop(ss, 1, None))
    IN  IF ~SmoothingApplies(after_sort) THEN [err |-> "none", table |-> after_sort]
        ELSE IF \E c \in Range(SmoothedCols) : c \notin Range(after_sort.cols)
             THEN [err |-> "KeyError", table |-> None]
             ELSE [err |-> "none", table |-> Smooth(after_sort)]

\* ---- bounds and input sets of the merge specification ----
MaxMergeStas == 2
MergeNames == {"la00", "la01", "la09"}
GridTimes == {0, 15, 30, 45}

\* The runs of a station that reports at the times T of the grid: the
\* maximal blocks of consecutive grid times, each a sequence.
RECURSIVE RunsOf(_)
RunsOf(T) ==
    IF T = {} THEN <<>>
    ELSE LET first == CHOOSE t \in T : \A u \in T : t <= u
             blockEnd == CHOOSE e \in T :
                            /\ \A u \in GridTimes : (first <= u /\ u <= e) => u \in T
                            /\ e + ReferenceInterval \notin T
                            /\ first <= e
             block == {u \in T : u <= blockEnd}
         IN  <<[k \in 1..Cardinality(block) |-> first + ReferenceInterval * (k - 1)]>>
                 \o RunsOf(T \ block)

\* A station as lls_detection leaves it: per run the time, x, y, residual
\* and residual-baseline arrays, all of the run's length.
StationAt(name, T) ==
    LET runs == RunsOf(T)
        per(f(_)) == [r \in DOMAIN runs |-> [k \in DOMAIN runs[r] |-> Num(f(runs[r][k]))]]
    IN  [name |-> name,
         times |-> runs,
         xs |-> per(LAMBDA t : 1000 + t),
         ys |-> per(LAMBDA t : 2000 + t),
         residuals |-> per(LAMBDA t : t \div ReferenceInterval),
         residual_avg |-> per(LAMBDA t : 1)]

\* The timestamps of a station's runs.
TimesOf(sta) == Range(Chain(sta.times))

\* Picks(stas) after lls_detection: stations of distinct names, each with
\* some times of the grid
InitMerge ==
    /\ \E n \in 1..MaxMergeStas :
         \E names \in [1..n -> MergeNames], Ts \in [1..n -> (SUBSET GridTimes) \ {{}}] :
            /\ \A i, j \in 1..n : i # j => names[i] # names[j]
            /\ stas = [i \in 1..n |-> StationAt(names[i], Ts[i])]
    /\ merged = None
    /\ mergeErr = "none"
    /\ mgPc = "ready"
    /\ IdleDs
    /\ IdleLls
    /\ IdleNd
    /\ IdleEv
    /\ IdleWr
    /\ IdleSit

\* Picks.merge()
Merge ==
    /\ mgPc = "ready"
    /\ LET r == MergeResult(stas)
       IN  /\ merged' = r.table
           /\ mergeErr' = r.err
    /\ mgPc' = "done"
    /\ UNCHANGED <<dsVars, stas, llsVars, ndVars, evVars, wrVars, sitVars>>

NextMerge == Merge

SpecMerge == InitMerge /\ [][NextMerge]_vars

(***************************************************************************)
(* Claims about merge                                                      *)
(***************************************************************************)
Returned == mgPc = "done" /\ mergeErr = "none"

UniqueTimes(t) ==
    \A p, q \in DOMAIN t.time : p # q => t.time[p] # t.time[q]

StationFields == {"x", "y", "res", "res_avg"}

C26_TimelineIsUnionAscending ==
    Returned =>
        /\ Range(merged.time) = UNION {TimesOf(stas[i]) : i \in DOMAIN stas}
        /\ \A p, q \in DOMAIN merged.time : p < q => merged.time[p] <= merged.time[q]

\* two stations merged, each with a timestamp the other lacks and one they
\* share, the second station holding the earliest timestamp
C26_Witness ==
    /\ Returned
    /\ Len(stas) = 2
    /\ TimesOf(stas[1]) \ TimesOf(stas[2]) # {}
    /\ TimesOf(stas[1]) \cap TimesOf(stas[2]) # {}
    /\ \E t \in TimesOf(stas[2]) : \A u \in TimesOf(stas[1]) : t < u

\* ---- claims about the smoothing of merge ----
HasStation(name) == \E i \in DOMAIN stas : stas[i].name = name

\* the table as line 584 leaves it, before the smoothing
Unsmoothed == SortValues(MergeLoop(stas, 1, None))

\* C22: whenever la09 is among the merged stations, merge returns with la09's
\* res, res_avg and x columns replaced by their limit-1 linear interpolation;
\* whenever la09 is not among them, merge raises nothing and returns the
\* table without any smoothing, whichever other stations are present.
C22_SmoothingTargetsLa09 ==
    mgPc = "done" =>
        /\ mergeErr = "none"
        /\ IF HasStation("la09")
           THEN \A k \in DOMAIN SmoothedCols :
                   merged.cell[SmoothedCols[k]]
                       = LinearInterpolate(Unsmoothed.cell[SmoothedCols[k]], 1)
           ELSE merged = Unsmoothed

\* C23: when merge applies the smoothing, a cell of a smoothed column differs
\* from the cell before the smoothing only if that cell was missing and the
\* rows directly before and after it held values in that column.
C23_OnlyIsolatedCellsFilled ==
    (Returned /\ SmoothingApplies(merged)) =>
        \A k \in DOMAIN SmoothedCols : \A p \in DOMAIN merged.time :
            LET before == Unsmoothed.cell[SmoothedCols[k]]
            IN  merged.cell[SmoothedCols[k]][p] # before[p] =>
                    /\ IsNaN(before[p])
                    /\ p > 1
                    /\ p < Len(before)
                    /\ ~IsNaN(before[p - 1])
                    /\ ~IsNaN(before[p + 1])

(***************************************************************************)
(* Picks.on_off_list and Picks.no_data_csv                                 *)
(*                                                                         *)
(* Timestamps of this stage count seconds from Jan 1 00:00:00 of the first *)
(* year of stas[0].years (years of 365 days).  The file no_data_csv writes *)
(* holds the table it returns and is not modelled apart from it.           *)
(***************************************************************************)
YearSeconds == 365 * 86400

\* line 658-659, 665, 671: the first and the last second reported
RangeStart == 0
RangeEnd(years) == Len(years) * YearSeconds - 15

\* line 662: datetime(end_year, 12, 31, 23, 59, 00)
LastMinute(years) == Len(years) * YearSeconds - 60

\* line 668: datetime(st_year, 1, 1, 00, 1, 00)
FirstMinute == 60

\* line 605-614: the rows of start_end in the order they are appended: per
\* station, per run, the run's first time as an onset and its last time as
\* an offset
RECURSIVE RunRows(_, _)
RunRows(name, times) ==
    IF times = <<>> THEN <<>>
    ELSE LET time_arr == Head(times)
         IN  <<[times |-> time_arr[1], onset |-> TRUE, station |-> name],
               [times |-> time_arr[Len(time_arr)], onset |-> FALSE, station |-> name]>>
                 \o RunRows(name, Tail(times))

RECURSIVE StartEnd(_)
StartEnd(ss) ==
    IF ss = <<>> THEN <<>>
    ELSE RunRows(Head(ss).name, Head(ss).times) \o StartEnd(Tail(ss))

\* line 616-618: sort_values(by=["times", "onset"], ascending=[True, False]):
\* by time, onsets before offsets of the same time, rows equal in both in
\* the order they were appended
OnOffList(ss) ==
    LET rows  == StartEnd(ss)
        order == SortTriples({<<rows[p].times, IF rows[p].onset THEN 0 ELSE 1, p>>
                                 : p \in DOMAIN rows})
    IN  [k \in DOMAIN order |-> rows[order[k][3]]]

\* line 652 and 654: the two edges of the on-count the loop records
IsDrop(prior_on_stas, on_stas, m) == prior_on_stas = m /\ on_stas = m - 1
IsRise(prior_on_stas, on_stas, m) == prior_on_stas = m - 1 /\ on_stas = m

\* line 646-656: the loop over the rows of sorted, from row i on (row 1 is
\* the source's i = 0)
RECURSIVE NoDataLoop(_, _, _, _)
NoDataLoop(srt, m, i, acc) ==
    IF i > Len(srt) THEN acc
    ELSE LET on_stas == IF srt[i].onset THEN acc.on_stas + 1 ELSE acc.on_stas - 1
             t       == srt[i].times
             st      == IF i >= 2 /\ IsDrop(acc.on_stas, on_stas, m)
                        THEN Append(acc.start_no_data, t) ELSE acc.start_no_data
             en      == IF i >= 2 /\ IsRise(acc.on_stas, on_stas, m)
                        THEN Append(acc.end_no_data, t) ELSE acc.end_no_data
         IN  NoDataLoop(srt, m, i + 1,
                        [on_stas |-> on_stas, start_no_data |-> st, end_no_data |-> en])

\* Picks.no_data_csv(min_sta, sorted): [err, table]
NoDataResult(ss, m, srt) ==
    IF Len(ss) < m THEN [err |-> "Not Enough Stations to Make No Data CSV", table |-> None]
    ELSE
    LET years == ss[1].years
        acc   == NoDataLoop(srt, m, 1,
                     [on_stas |-> 0, start_no_data |-> <<>>,
                      end_no_data |-> IF m = 1 THEN <<srt[1].times>> ELSE <<>>])
        s0    == acc.start_no_data
        e0    == acc.end_no_data
    IN  IF s0 = <<>> THEN [err |-> "IndexError", table |-> None]   \* line 662
        ELSE
        LET atEnd == s0[Len(s0)] >= LastMinute(years)
            s1    == IF atEnd THEN SubSeq(s0, 1, Len(s0) - 1) ELSE s0
            e1    == IF atEnd THEN e0 ELSE Append(e0, RangeEnd(years))
        IN  IF e1 = <<>> THEN [err |-> "IndexError", table |-> None]   \* line 668
            ELSE
            LET atStart == e1[1] <= FirstMinute
                s2      == IF atStart THEN s1 ELSE <<RangeStart>> \o s1
                e2      == IF atStart THEN Tail(e1) ELSE e1
            IN  IF Len(s2) # Len(e2)
                THEN [err |-> "ValueError", table |-> None]   \* line 673
                ELSE [err |-> "none", table |-> [start |-> s2, end |-> e2]]

\* ---- bounds and input sets of the no-data specification ----
MaxRuns == 2
NdYears == <<"2010", "2011">>
NdNames == <<"la01", "la02">>
NdTimes == {0, 30, 1000, 2000, RangeEnd(NdYears) - 15, RangeEnd(NdYears)}
MinStas == {1, 2}

\* The time arrays of a station's runs, each given by its first and its last
\* timestamp: runs in time order, a run ending before the next begins.
NdRunLists ==
    LET runSet == {r \in NdTimes \X NdTimes : r[1] <= r[2]}
    IN  {rs \in SeqsOf(runSet, 1, MaxRuns) :
            \A k \in 1..(Len(rs) - 1) : rs[k][2] < rs[k + 1][1]}

TimeArr(r) == IF r[1] = r[2] THEN <<r[1]>> ELSE <<r[1], r[2]>>

\* Picks(stas) after lls_detection
InitNoData ==
    /\ \E n \in 1..Len(NdNames) :
         \E runs \in [1..n -> NdRunLists] :
            stas = [i \in 1..n |->
                      [name |-> NdNames[i], years |-> NdYears,
                       times |-> [k \in DOMAIN runs[i] |-> TimeArr(runs[i][k])]]]
    /\ sorted = <<>>
    /\ min_sta = 0
    /\ df_no_data = None
    /\ ndErr = "none"
    /\ ndPc = "ready"
    /\ IdleDs
    /\ IdleLls
    /\ IdleMg
    /\ IdleEv
    /\ IdleWr
    /\ IdleSit

\* sorted_list = picks.on_off_list()
OnOffListCall ==
    /\ ndPc = "ready"
    /\ sorted' = OnOffList(stas)
    /\ ndPc' = "listed"
    /\ UNCHANGED <<min_sta, df_no_data, ndErr>>
    /\ UNCHANGED <<dsVars, stas, llsVars, mgVars, evVars, wrVars, sitVars>>

\* picks.no_data_csv(min_sta, sorted_list), for at least min_sta stations
NoDataCsv ==
    /\ ndPc = "listed"
    /\ \E m \in MinStas :
         /\ m <= Len(stas)
         /\ min_sta' = m
         /\ LET r == NoDataResult(stas, m, sorted)
            IN  /\ df_no_data' = r.table
                /\ ndErr' = r.err
    /\ ndPc' = "done"
    /\ UNCHANGED sorted
    /\ UNCHANGED <<dsVars, stas, llsVars, mgVars, evVars, wrVars, sitVars>>

NextNoData == OnOffListCall \/ NoDataCsv

SpecNoData == InitNoData /\ [][NextNoData]_vars

(***************************************************************************)
(* Claims about no_data_csv                                                *)
(***************************************************************************)
\* The runs of all stations, each <<first time, last time, station>>.
AllRuns ==
    UNION {{<<stas[i].times[k][1], stas[i].times[k][Len(stas[i].times[k])], i>>
               : k \in DOMAIN stas[i].times} : i \in DOMAIN stas}

\* The number of stations on at the instant t, and throughout u..v.
OnAt(t) == Cardinality({r \in AllRuns : r[1] <= t /\ t <= r[2]})
OnThrough(u, v) == Cardinality({r \in AllRuns : r[1] <= u /\ v <= r[2]})

\* The instants at which the on-count can change, and the range's two ends.
Instants ==
    {RangeStart, RangeEnd(NdYears)} \cup {r[1] : r \in AllRuns} \cup {r[2] : r \in AllRuns}

NextInstant(u) == CHOOSE v \in Instants : v > u /\ \A w \in Instants : w > u => v <= w
PrevInstant(u) == CHOOSE v \in Instants : v < u /\ \A w \in Instants : w < u => w <= v

\* Fewer than min_sta stations are on between the instant u and the next one.
LowAfter(u) == u < RangeEnd(NdYears) /\ OnThrough(u, NextInstant(u)) < min_sta
LowBefore(u) == u > RangeStart /\ OnThrough(PrevInstant(u), u) < min_sta

\* The spans during which fewer than min_sta stations are on: a span starts
\* at the range start or where the count leaves min_sta, and ends at the
\* range end or where the count is back at min_sta.
SpanStarts == {u \in Instants : LowAfter(u) /\ ~(LowBefore(u) /\ OnAt(u) < min_sta)}
SpanEnds == {v \in Instants : LowBefore(v) /\ ~(LowAfter(v) /\ OnAt(v) < min_sta)}
LowSpans ==
    {<<u, v>> \in SpanStarts \X SpanEnds :
        /\ u < v
        /\ \A w \in SpanEnds : w > u => v <= w}

\* The spans to report: not the one before min_sta stations first come on
\* within the first minute, nor the one after they last go off within the
\* last minute.
ExpectedSpans ==
    {sp \in LowSpans :
        /\ ~(sp[1] = RangeStart /\ sp[2] <= FirstMinute /\ OnAt(RangeStart) < min_sta)
        /\ ~(sp[1] >= LastMinute(NdYears) /\ sp[2] = RangeEnd(NdYears)
                /\ OnAt(RangeEnd(NdYears)) < min_sta)}

ReportedSpans ==
    {<<df_no_data.start[k], df_no_data.end[k]>> : k \in DOMAIN df_no_data.start}

ReportCorrect ==
    /\ ndErr = "none"
    /\ Len(df_no_data.start) = Len(df_no_data.end)
    /\ \A k \in 1..(Len(df_no_data.start) - 1) :
          df_no_data.end[k] <= df_no_data.start[k + 1]
    /\ ReportedSpans = ExpectedSpans

\* C10: for any time-sorted on/off list of at least min_sta stations the
\* call returns, without failing, the ordered (start, end) pairs of exactly
\* the spans of the range during which fewer than min_sta stations are on:
\* also when min_sta stations are never on at the same time.
C10_NoDataSpansReported == ndPc = "done" => ReportCorrect

\* What holds of the code: the report is right whenever min_sta stations are
\* on together at some instant.
C10_ReportedWhenEverOn ==
    (ndPc = "done" /\ \E t \in Instants : OnAt(t) >= min_sta) => ReportCorrect

-----------------------------------------------------------------------------
\* Events.  The object holds self.merged, the table Picks.merge returned;
\* pick_events adds the columns sum_res_avg, ressum and event to it.

\* str.endswith on a column name <<prefix, field>>: the field is never empty,
\* so the name ends with "x", "res" or "res_avg" according to its field
\* ("sum_res_avg" ends with "res_avg"; "ressum" ends with none of them).
EndsWith(col, suffix) ==
    CASE suffix = "x" -> col[2] = "x"
      [] suffix = "res" -> col[2] = "res"
      [] suffix = "res_avg" -> col[2] \in {"res_avg", "sum_res_avg"}

ColsEndingWith(t, suffix) == SelectSeq(t.cols, LAMBDA c : EndsWith(c, suffix))

\* np.nansum over the given columns of one row: NaN counts as 0
RECURSIVE NanSum(_, _, _)
NanSum(t, cs, p) ==
    IF cs = <<>> THEN 0
    ELSE (IF IsNaN(t.cell[Head(cs)][p]) THEN 0 ELSE Val(t.cell[Head(cs)][p]))
         + NanSum(t, Tail(cs), p)

\* the inner loop over x_cols: the number of NaN x cells of one row
RECURSIVE NanCount(_, _, _)
NanCount(t, cs, p) ==
    IF cs = <<>> THEN 0
    ELSE (IF IsNaN(t.cell[Head(cs)][p]) THEN 1 ELSE 0) + NanCount(t, Tail(cs), p)

\* self.merged[name] = values: overwrite the column, or append a new one
SetColumn(t, c, values) ==
    [time |-> t.time,
     cols |-> IF c \in Range(t.cols) THEN t.cols ELSE Append(t.cols, c),
     cell |-> [d \in Range(t.cols) \cup {c} |-> IF d = c THEN values ELSE t.cell[d]]]

ExceedsMutant(ressum, th) == ressum >= th
\* self.merged["ressum"][i] > thresh[i]
Exceeds(ressum, th) == ressum > th

\* nansum < len(x_cols) - x_col_check, with x_col_check = active_stas - 1
EnoughStations(nansum, n_x_cols, a) == nansum < n_x_cols - (a - 1)

\* indices = int(hr_off * 3600 / 15); h is hr_off * 3600
PadIndices(h) == h \div 15

PaddedMutant(temp, indices) ==
    [p \in 1..Len(temp) |->
        IF \/ temp[p] = 1
           \/ \E q \in 1..Len(temp) : \E j \in 1..indices :
                 /\ temp[q] = 1
                 /\ \/ (p = q + j /\ p <= Len(temp))
                    \/ (p = q - j /\ p > 1)
        THEN 1 ELSE 0]
\* the padding loop: row k (zero-based) is set by a row i with temp_event[i] = 1
\* and a j in range(1, indices), as i + j when i + j < len(event) and as i - j
\* when i - j > 0; the rows of temp_event keep their value
Padded(temp, indices) ==
    [p \in 1..Len(temp) |->
        LET k == p - 1 IN
        IF \/ temp[p] = 1
           \/ \E q \in 1..Len(temp) : \E j \in 1..(indices - 1) :
                 LET i == q - 1 IN
                 /\ temp[q] = 1
                 /\ \/ (k = i + j /\ i + j < Len(temp))
                    \/ (k = i - j /\ i - j > 0)
        THEN 1 ELSE 0]

\* pick_events: the table it leaves in self.merged, the mask before padding and
\* the returned threshold array
PickEventsResult(t, a, h) ==
    LET x_cols == ColsEndingWith(t, "x")
        res_cols == ColsEndingWith(t, "res")
        res_avg_cols == ColsEndingWith(t, "res_avg")
        rows == 1..NumRows(t)
        sum_res_avg(p) == NanSum(t, res_avg_cols, p)
        sum_res(p) == NanSum(t, res_cols, p)
        t1 == SetColumn(t, Col("", "sum_res_avg"), [p \in rows |-> Num(sum_res_avg(p))])
        t2 == SetColumn(t1, Col("", "ressum"), [p \in rows |-> Num(sum_res(p))])
        raw == [p \in rows |->
                   IF /\ Exceeds(sum_res(p), sum_res_avg(p))
                      /\ EnoughStations(NanCount(t, x_cols, p), Len(x_cols), a)
                   THEN 1 ELSE 0]
        event == Padded(raw, PadIndices(h))
    IN  [table |-> SetColumn(t2, Col("", "event"), [p \in rows |-> Num(event[p])]),
         temp_event |-> raw,
         thresh |-> [p \in rows |-> sum_res_avg(p)]]

\* the edge scan of make_catalog: the zero-based indices i >= 1 with
\* event[i - 1] < event[i], ascending
StartIndices(event) ==
    SelectSeq([i \in 1..(Len(event) - 1) |-> i], LAMBDA i : event[i] < event[i + 1])

\* the zero-based indices i >= 1 with event[i - 1] > event[i], ascending
EndIndices(event) ==
    SelectSeq([i \in 1..(Len(event) - 1) |-> i], LAMBDA i : event[i] > event[i + 1])

\* zip(a, b): as many pairs as the shorter list has entries
Zip(a, b) ==
    [k \in 1..(IF Len(a) < Len(b) THEN Len(a) ELSE Len(b)) |-> <<a[k], b[k]>>]

\* self.merged.iloc[s:e], as the (one-based) rows of self.merged it holds;
\* empty when e <= s
Iloc(s, e) == [k \in 1..(IF e > s THEN e - s ELSE 0) |-> s + k]

\* An entry of the object array catalog: None, or <<rows>> for a DataFrame
Frame(rows) == <<rows>>

\* lines 940-955: the candidate events
Candidates(t) ==
    LET event == [p \in 1..NumRows(t) |-> Val(t.cell[Col("", "event")][p])]
        start_indices == StartIndices(event)
        end_indices == EndIndices(event)
        pairs == Zip(start_indices, end_indices)
    IN  [x \in 1..Len(start_indices) |->
            IF x <= Len(pairs) THEN Frame(Iloc(pairs[x][1], pairs[x][2])) ELSE None]

LongEnoughMutant(start, end, ct) == end - start >= ct * 60
\* end - start > datetime.timedelta(minutes=cull_time), times in seconds
LongEnough(start, end, ct) == end - start > ct * 60

\* lines 958-968: the duration cull; event.iloc[0] of an empty DataFrame raises
RECURSIVE CullTime(_, _, _, _, _)
CullTime(t, cat, ct, k, acc) ==
    IF k > Len(cat) THEN [err |-> "none", list |-> acc]
    ELSE IF cat[k] = None THEN CullTime(t, cat, ct, k + 1, acc)
    ELSE LET rows == cat[k][1] IN
         IF rows = <<>> THEN [err |-> "IndexError", list |-> acc]
         ELSE LET start == t.time[rows[1]]
                  end == t.time[rows[Len(rows)]]
              IN  CullTime(t, cat, ct, k + 1,
                           IF LongEnough(start, end, ct) THEN Append(acc, rows) ELSE acc)

EndValMutant(first, last) ==
    IF IsNaN(last) THEN NaN
    ELSE Num(Val(last) - (IF IsNaN(first) THEN 0 ELSE Val(first)))
\* lines 979-985: end_val of one x column, computed only when the last value is
\* not NaN.  The two np.mean terms cancel, and a NaN first value makes it NaN.
EndVal(first, last) ==
    IF IsNaN(last) \/ IsNaN(first) THEN NaN ELSE Num(Val(last) - Val(first))

\* lines 976-988: <<end_avg, x_col_not_nan>> after the loop over x_cols
RECURSIVE EndSum(_, _, _)
EndSum(t, rows, cs) ==
    IF cs = <<>> THEN <<0, 0>>
    ELSE LET rest == EndSum(t, rows, Tail(cs))
             end_val == EndVal(t.cell[Head(cs)][rows[1]],
                               t.cell[Head(cs)][rows[Len(rows)]])
         IN  IF ~IsNaN(end_val)
             THEN <<Val(end_val) + rest[1], rest[2] + 1>>
             ELSE rest

\* end_avg / x_col_not_nan > cull_dist, for x_col_not_nan > 0
FarEnough(end_avg, x_col_not_nan, cd) == end_avg > cd * x_col_not_nan

RECURSIVE CullDistMutant(_, _, _, _, _)
CullDistMutant(t, list, cd, k, acc) ==
    IF k > Len(list) THEN [err |-> "none", list |-> acc]
    ELSE LET x_cols == ColsEndingWith(t, "x")
             sum == EndSum(t, list[k], x_cols)
         IN  IF sum[2] = 0 THEN [err |-> "ZeroDivisionError", list |-> acc]
             ELSE CullDistMutant(t, list, cd, k + 1,
                                 IF FarEnough(sum[1], sum[2], cd)
                                 THEN <<list[k]>> \o acc ELSE acc)
\* lines 971-991: the displacement cull; 0.0 / 0 raises
RECURSIVE CullDist(_, _, _, _, _)
CullDist(t, list, cd, k, acc) ==
    IF k > Len(list) THEN [err |-> "none", list |-> acc]
    ELSE LET x_cols == ColsEndingWith(t, "x")
             sum == EndSum(t, list[k], x_cols)
         IN  IF sum[2] = 0 THEN [err |-> "ZeroDivisionError", list |-> acc]
             ELSE CullDist(t, list, cd, k + 1,
                           IF FarEnough(sum[1], sum[2], cd)
                           THEN Append(acc, list[k]) ELSE acc)

\* make_catalog: the candidates, the exception raised and the list returned
MakeCatalogResult(t, ct, cd) ==
    LET cat == Candidates(t)
        cull_time_catalog == CullTime(t, cat, ct, 1, <<>>)
        cull_dist_catalog == CullDist(t, cull_time_catalog.list, cd, 1, <<>>)
    IN  IF cull_time_catalog.err # "none"
        THEN [catalog |-> cat, err |-> cull_time_catalog.err, rev_catalog |-> None]
        ELSE IF cull_dist_catalog.err # "none"
        THEN [catalog |-> cat, err |-> cull_dist_catalog.err, rev_catalog |-> None]
        ELSE [catalog |-> cat, err |-> "none", rev_catalog |-> cull_dist_catalog.list]

\* ---- the merged tables, calls and arguments explored ----
PickRows == 5
CatalogRows == 6
\* rows one 30-second interpolation interval apart
RowStep == 30
EvNames == <<"la01", "la02">>
XSlopes == <<2, 1>>
Baselines == <<1, 1>>
\* per station, what a row can hold: no sample (NaN), or a sample of that residual
PickResiduals == <<{NaN, Num(0), Num(2)}, {NaN, Num(1)}>>
CatalogResiduals == <<{NaN, Num(2)}, {NaN, Num(1)}>>
ActiveStas == {1, 2}
HrOffs == {15, 30, 45}
CullTimes == {0, 1}
CullDists == {0, 3}

\* Every row of a merged table comes from a sample of at least one station:
\* c[p][i] is what row p holds for station i.
RowChoices(options) ==
    {r \in options[1] \X options[2] : \E i \in 1..Len(EvNames) : ~IsNaN(r[i])}

ResidualChoices(n, options) == [1..n -> RowChoices(options)]

\* The merged table of stations with residuals c[p][i], residual baseline
\* Baselines[i] and x = XSlopes[i] * p where they have a sample
EvTable(n, c) ==
    LET field(i, f, p) ==
            IF IsNaN(c[p][i]) THEN NaN
            ELSE CASE f = "x" -> Num(XSlopes[i] * p)
                   [] f = "y" -> Num(0)
                   [] f = "res" -> c[p][i]
                   [] f = "res_avg" -> Num(Baselines[i])
        fields == <<"x", "y", "res", "res_avg">>
    IN  [time |-> [p \in 1..n |-> RowStep * (p - 1)],
         cols |-> [k \in 1..(4 * Len(EvNames)) |->
                      Col(EvNames[((k - 1) \div 4) + 1], fields[((k - 1) % 4) + 1])],
         cell |-> [d \in {Col(EvNames[i], f) : i \in 1..Len(EvNames), f \in Range(fields)} |->
                      LET i == CHOOSE i \in 1..Len(EvNames) : EvNames[i] = d[1]
                      IN  [p \in 1..n |-> field(i, d[2], p)]]]

\* Events.__init__ on a merged table
InitEvents(n, options) ==
    /\ \E c \in ResidualChoices(n, options) : merged = EvTable(n, c)
    /\ mergeErr = "none"
    /\ mgPc = "done"
    /\ active_stas = 0
    /\ hr_off = 0
    /\ temp_event = <<>>
    /\ thresh = <<>>
    /\ cull_time = 0
    /\ cull_dist = 0
    /\ catalog = <<>>
    /\ rev_catalog = None
    /\ catErr = "none"
    /\ evPc = "ready"
    /\ stas = <<>>
    /\ IdleDs
    /\ IdleLls
    /\ IdleNd
    /\ IdleWr
    /\ IdleSit

InitPick == InitEvents(PickRows, PickResiduals)

InitCatalog == InitEvents(CatalogRows, CatalogResiduals)

\* Events.pick_events
PickEvents ==
    /\ evPc = "ready"
    /\ \E a \in ActiveStas : \E h \in HrOffs :
         \E r \in {PickEventsResult(merged, a, h)} :
         /\ active_stas' = a
         /\ hr_off' = h
         /\ merged' = r.table
         /\ temp_event' = r.temp_event
         /\ thresh' = r.thresh
    /\ evPc' = "picked"
    /\ UNCHANGED <<dsVars, stas, llsVars, mergeErr, mgPc, ndVars, wrVars, sitVars,
                   cull_time, cull_dist, catalog, rev_catalog, catErr>>

\* Events.make_catalog
MakeCatalog ==
    /\ evPc = "picked"
    /\ \E ct \in CullTimes : \E cd \in CullDists :
         \E r \in {MakeCatalogResult(merged, ct, cd)} :
         /\ cull_time' = ct
         /\ cull_dist' = cd
         /\ catalog' = r.catalog
         /\ rev_catalog' = r.rev_catalog
         /\ catErr' = r.err
    /\ evPc' = "catalogued"
    /\ UNCHANGED <<dsVars, stas, llsVars, mgVars, ndVars, wrVars, sitVars,
                   active_stas, hr_off, temp_event, thresh>>

\* Events.pick_events called again on the same object, with the arguments of
\* the first call
PickEventsAgain ==
    /\ evPc = "picked"
    /\ \E r \in {PickEventsResult(merged, active_stas, hr_off)} :
         /\ merged' = r.table
         /\ temp_event' = r.temp_event
         /\ thresh' = r.thresh
    /\ evPc' = "picked_again"
    /\ UNCHANGED <<dsVars, stas, llsVars, mergeErr, mgPc, ndVars, wrVars, sitVars,
                   active_stas, hr_off, cull_time, cull_dist, catalog,
                   rev_catalog, catErr>>

NextPick == PickEvents

SpecPick == InitPick /\ [][NextPick]_vars

NextCatalog == PickEvents \/ MakeCatalog

SpecCatalog == InitCatalog /\ [][NextCatalog]_vars

NextPickTwice == PickEvents \/ PickEventsAgain

SpecPickTwice == InitCatalog /\ [][NextPickTwice]_vars

\* Longer tables, for the order of the catalog: both stations have a sample
\* on every row.
OrderRows == 9
OrderResiduals == <<{Num(0), Num(2)}, {Num(1)}>>

InitCatalogOrder == InitEvents(OrderRows, OrderResiduals)

SpecCatalogOrder == InitCatalogOrder /\ [][NextCatalog]_vars

-----------------------------------------------------------------------------
\* Claims about Events.pick_events

Picked == evPc \in {"picked", "catalogued"}

EvRows == 1..NumRows(merged)

\* the stations of the merged table, and one station's cell of a row
EvStations == {c[1] : c \in {d \in Range(merged.cols) : d[1] # "" /\ d[2] = "x"}}

StationCell(sta, f, p) == merged.cell[<<sta, f>>][p]

\* the sum of one field of a row over the given stations
RECURSIVE SumCells(_, _, _)
SumCells(S, f, p) ==
    IF S = {} THEN 0
    ELSE LET sta == CHOOSE e \in S : TRUE
         IN  Val(StationCell(sta, f, p)) + SumCells(S \ {sta}, f, p)

\* the sum of a row's non-missing station residuals (f = "res") or residual
\* baselines (f = "res_avg")
RowSum(f, p) == SumCells({sta \in EvStations : ~IsNaN(StationCell(sta, f, p))}, f, p)

StationsWithX(p) == {sta \in EvStations : ~IsNaN(StationCell(sta, "x", p))}

RawActiveRows == {p \in EvRows : temp_event[p] = 1}

ActiveRows == {p \in EvRows : merged.cell[Col("", "event")][p] = Num(1)}

\* C8: after pick_events, a row is raw-active (active before padding) if and
\* only if the sum of its non-missing station residuals is strictly greater
\* than the sum of its non-missing station residual baselines and at least
\* active_stas stations have a non-missing x on that row; the returned
\* threshold and the ressum column are those sums, missing values excluded.
C8_RawActiveIff ==
    Picked =>
        \A p \in EvRows :
            /\ (p \in RawActiveRows) <=>
                   (/\ RowSum("res", p) > RowSum("res_avg", p)
                    /\ Cardinality(StationsWithX(p)) >= active_stas)
            /\ thresh[p] = RowSum("res_avg", p)
            /\ merged.cell[Col("", "ressum")][p] = Num(RowSum("res", p))

\* pick_events has run with active_stas = 1 on a table that has a raw-active row
\* on which a station is missing, and a row with enough stations whose residual
\* sum equals its threshold and is not raw-active.
C8_Witness ==
    /\ evPc = "picked"
    /\ active_stas = 1
    /\ \E p \in RawActiveRows : StationsWithX(p) # EvStations
    /\ \E p \in EvRows \ RawActiveRows :
          /\ RowSum("res", p) = RowSum("res_avg", p)
          /\ Cardinality(StationsWithX(p)) >= active_stas

\* P = floor(hr_off * 3600 / 15)
PadP == hr_off \div 15

Dist(a, b) == IF a < b THEN b - a ELSE a - b

\* C4: when exactly one row i is raw-active, the rows active after padding are
\* the 2P - 1 rows centred on i, fewer only where that region leaves the
\* timeline: exactly the rows of the timeline less than P rows away from i.
C4_SinglePickPaddedSymmetric ==
    (evPc = "picked" /\ Cardinality(RawActiveRows) = 1) =>
        \A i \in RawActiveRows :
            ActiveRows = {k \in EvRows : Dist(k, i) < PadP}

-----------------------------------------------------------------------------
\* Claims about Events.make_catalog

\* the candidate events, each the rows it holds
CandidateEvents == {catalog[k][1] : k \in {j \in DOMAIN catalog : catalog[j] # None}}

Survivors == Range(rev_catalog)

\* time of the last row - time of the first row, in seconds
Duration(rows) == merged.time[rows[Len(rows)]] - merged.time[rows[1]]

\* the stations with a non-missing x at both the first and the last row
EndpointStations(rows) ==
    {sta \in EvStations : /\ ~IsNaN(StationCell(sta, "x", rows[1]))
                          /\ ~IsNaN(StationCell(sta, "x", rows[Len(rows)]))}

\* the sum over the given stations of last x - first x
RECURSIVE NetX(_, _)
NetX(S, rows) ==
    IF S = {} THEN 0
    ELSE LET sta == CHOOSE e \in S : TRUE
         IN  Val(StationCell(sta, "x", rows[Len(rows)]))
             - Val(StationCell(sta, "x", rows[1])) + NetX(S \ {sta}, rows)

\* averaged net x displacement compared with d, over a non-empty station set
AvgAbove(rows, d) ==
    NetX(EndpointStations(rows), rows) > d * Cardinality(EndpointStations(rows))

AvgEqual(rows, d) ==
    NetX(EndpointStations(rows), rows) = d * Cardinality(EndpointStations(rows))

C9_ZeroDenominatorDropped ==
    (/\ evPc = "catalogued"
     /\ catErr # "IndexError"
     /\ \E ev \in CandidateEvents \ {<<>>} :
           Duration(ev) > cull_time * 60 /\ EndpointStations(ev) = {})
    => (/\ catErr = "none"
        /\ \A ev \in Survivors : EndpointStations(ev) # {})

\* the candidates that survived the duration cull
DurationSurvivors ==
    {ev \in CandidateEvents \ {<<>>} : Duration(ev) > cull_time * 60}

\* C21: when make_catalog returns, the events returned are exactly the
\* candidates that survived the duration cull and for which the sum of
\* (last x - first x) over the stations with a non-missing x at both the
\* first and the last row, divided by the number of those stations, is
\* greater than cull_dist; a station with a missing first or last x adds
\* nothing to the sum nor to the count.
C21_MeanOverEndpointStations ==
    (evPc = "catalogued" /\ catErr = "none") =>
        /\ \A ev \in DurationSurvivors : EndpointStations(ev) # {}
        /\ Survivors = {ev \in DurationSurvivors : AvgAbove(ev, cull_dist)}

\* make_catalog has returned an event in which one station has no x at the
\* first or last row, and which would have been dropped had that station been
\* counted in the denominator.
C21_Witness ==
    /\ evPc = "catalogued"
    /\ catErr = "none"
    /\ \E ev \in Survivors :
          /\ EndpointStations(ev) # EvStations
          /\ NetX(EndpointStations(ev), ev) <= cull_dist * Cardinality(EvStations)

\* C25: the events make_catalog returns are in strictly increasing order of
\* start time, no two of them share a row, and each is one of the candidates,
\* with the rows the candidate has.
C25_CatalogOrdered ==
    (evPc = "catalogued" /\ catErr = "none") =>
        /\ \A k \in DOMAIN rev_catalog :
              /\ rev_catalog[k] \in CandidateEvents
              /\ rev_catalog[k] # <<>>
        /\ \A j, k \in DOMAIN rev_catalog :
              j < k => /\ merged.time[rev_catalog[j][1]] < merged.time[rev_catalog[k][1]]
                       /\ Range(rev_catalog[j]) \cap Range(rev_catalog[k]) = {}

\* make_catalog has returned two events, having dropped a candidate that
\* lies between them
C25_Witness ==
    /\ evPc = "catalogued"
    /\ catErr = "none"
    /\ Len(rev_catalog) = 2
    /\ \E ev \in CandidateEvents \ Survivors :
          ev # <<>> /\ rev_catalog[1][1] < ev[1] /\ ev[1] < rev_catalog[2][1]

-----------------------------------------------------------------------------
\* Further claims about the padding of Events.pick_events

\* C17: after pick_events, every row of the timeline less than P rows away
\* from a raw-active row is active, the first and the last row included.
C17_PaddingClippedOnlyByBounds ==
    evPc = "picked" =>
        \A i \in RawActiveRows : \A k \in EvRows :
            Dist(k, i) < PadP => k \in ActiveRows

\* C18: after pick_events, every active row is raw-active or less than P rows
\* away from a row that was raw-active before padding, and every raw-active
\* row is active.
C18_PaddingNeverCascades ==
    evPc = "picked" =>
        /\ \A k \in ActiveRows :
              \/ k \in RawActiveRows
              \/ \E i \in RawActiveRows : Dist(k, i) < PadP
        /\ RawActiveRows \subseteq ActiveRows

\* pick_events has padded a row that was not raw-active, and a row next to it
\* that is P or more rows away from every raw-active row stayed inactive.
C18_Witness ==
    /\ evPc = "picked"
    /\ PadP >= 2
    /\ \E k \in ActiveRows \ RawActiveRows :
          \E n \in EvRows \ ActiveRows :
             /\ Dist(n, k) = 1
             /\ \A i \in RawActiveRows : Dist(n, i) >= PadP

-----------------------------------------------------------------------------
\* Claims about calling Events.pick_events twice

EventMask(t) == t.cell[Col("", "event")]

\* C29: a second call of pick_events on the same object with the same
\* active_stas and hr_off returns the threshold array the first call returned
\* and leaves the event column the first call left.
C29_SecondPickSame ==
    [][(evPc = "picked" /\ evPc' = "picked_again") =>
          /\ thresh' = thresh
          /\ EventMask(merged') = EventMask(merged)]_vars

-----------------------------------------------------------------------------
\* Further claims about the edge scan of Events.make_catalog

\* the maximal contiguous ranges of active rows, each as the rows it holds
ActiveRanges ==
    {[k \in 1..(hi - lo + 1) |-> lo + k - 1] :
        <<lo, hi>> \in {r \in EvRows \X EvRows :
                          /\ r[1] <= r[2]
                          /\ \A p \in r[1]..r[2] : p \in ActiveRows
                          /\ (r[1] - 1) \notin ActiveRows
                          /\ (r[2] + 1) \notin ActiveRows}}

\* C14: the candidates of make_catalog are exactly the maximal contiguous
\* ranges of active rows, one candidate per range, ranges at the first or last
\* row included; no entry of the candidate array is unset or empty.
C14_OneCandidatePerActiveRange ==
    evPc = "catalogued" =>
        /\ \A k \in DOMAIN catalog : catalog[k] # None /\ catalog[k][1] # <<>>
        /\ CandidateEvents = ActiveRanges
        /\ Len(catalog) = Cardinality(ActiveRanges)

-----------------------------------------------------------------------------
\* CatalogWrapper.full_catalog_run

\* the parameters of the functions called, self left out; none has a default
Signature(fn) ==
    CASE fn = "full_catalog_run" ->
             <<"data", "years", "window", "slide", "active_stas", "cull_time", "plot">>
      [] fn = "lls_detection" -> <<"increment", "slide">>
      [] fn = "merge" -> <<>>
      [] fn = "on_off_list" -> <<>>
      [] fn = "no_data_csv" -> <<"min_sta", "sorted">>
      [] fn = "pick_events" -> <<"sorted", "active_stas", "hr_off">>
      [] fn = "on_off_indices" -> <<"sorted">>
      [] fn = "plot_picking" -> <<"indices", "thresh", "num_plots">>
      [] fn = "make_catalog" -> <<"cull_time", "cull_dist">>
      [] fn = "save_catalog" -> <<"rev_catalog", "dir_save">>

\* Python raises TypeError for a call with npos positional arguments and the
\* keyword arguments kws when there are too many positional arguments, a
\* keyword names no parameter or one already given, or a parameter gets no
\* argument
BindError(fn, npos, kws) ==
    LET sig == Signature(fn)
        by_position == {sig[k] : k \in 1..(IF npos < Len(sig) THEN npos ELSE Len(sig))}
    IN  \/ npos > Len(sig)
        \/ \E k \in kws : k \notin Range(sig) \ by_position
        \/ \E n \in Range(sig) : n \notin by_position \cup kws

\* picks.lls_detection(window, slide): the station loop from station z on
RECURSIVE LlsDetection(_, _, _, _)
LlsDetection(ss, inc0, sl0, zz) ==
    IF zz > Len(ss) THEN [err |-> "none", stas |-> ss]
    ELSE LET inc == Normalize(inc0, ss[zz])
             sl == Normalize(sl0, ss[zz])
         IN  IF sl = 0 THEN [err |-> "ZeroDivisionError", stas |-> ss]
             ELSE IF NotDivisible(inc, sl) THEN [err |-> NotAnInteger, stas |-> ss]
             ELSE LET l == StationLists(ss[zz], inc, sl)
                  IN  IF l.err # "none" THEN [err |-> l.err, stas |-> ss]
                      ELSE LlsDetection([ss EXCEPT ![zz] = WithLists(ss[zz], l)],
                                        inc, sl, zz + 1)

\* the keyword values the wrapper writes into its calls (line 55 and 59)
ActiveStasPassed == 2
CullTimePassed == 30

\* One call statement of the wrapper: nothing when an earlier statement raised,
\* TypeError when the call does not bind, else what the callee leaves
Stage(env, fn, npos, kws, result) ==
    IF env.err # "none" THEN env
    ELSE IF BindError(fn, npos, kws) THEN [env EXCEPT !.err = "TypeError"]
    ELSE IF result.err # "none" THEN [env EXCEPT !.err = result.err]
    ELSE [result EXCEPT !.stages = Append(env.stages, fn)]

\* line 48-49
Line49(env, c) ==
    Stage(env, "lls_detection", 2, {},
          LET r == LlsDetection(env.stas, c.kw.window, c.kw.slide, 1)
          IN  [env EXCEPT !.err = r.err, !.stas = r.stas])

\* line 50
Line50(env) ==
    Stage(env, "merge", 0, {},
          LET r == MergeResult(env.stas)
          IN  [env EXCEPT !.err = r.err, !.merged_df = r.table])

\* line 51
Line51(env) ==
    Stage(env, "on_off_list", 0, {}, [env EXCEPT !.sorted_list = OnOffList(env.stas)])

\* line 52: sorted_list is the only argument, so it is bound to min_sta
Line52(env) ==
    Stage(env, "no_data_csv", 1, {},
          [env EXCEPT !.err = NoDataResult(env.stas, env.sorted_list, None).err])

\* line 54-55
Line55(env) ==
    Stage(env, "pick_events", 1, {"active_stas"},
          LET r == PickEventsResult(env.merged_df, ActiveStasPassed, None)
          IN  [env EXCEPT !.merged_df = r.table, !.threshold = r.thresh])

\* line 57
Line57(env) == Stage(env, "on_off_indices", 1, {}, env)

\* line 58
Line58(env) == Stage(env, "plot_picking", 2, {"num_plots"}, env)

\* line 56-58
IfPlot(env, c) == IF c.kw.plot THEN Line58(Line57(env)) ELSE env

\* line 59
Line59(env) ==
    Stage(env, "make_catalog", 0, {"cull_time"},
          LET r == MakeCatalogResult(env.merged_df, CullTimePassed, None)
          IN  [env EXCEPT !.err = r.err, !.catalog = r.rev_catalog])

\* line 61-62
Line62(env) == Stage(env, "save_catalog", 2, {}, env)

\* full_catalog_run(*c.positional, **c.kw): the stage calls completed, the
\* exception raised and the catalog returned
FullCatalogRunResult(c) ==
    IF BindError("full_catalog_run", Len(c.positional), DOMAIN c.kw)
    THEN [err |-> "TypeError", stages |-> <<>>, stas |-> c.positional[1],
          merged_df |-> None, sorted_list |-> None, threshold |-> None, catalog |-> None]
    ELSE Line62(Line59(IfPlot(Line55(Line52(Line51(Line50(Line49(
             [err |-> "none", stages |-> <<>>, stas |-> c.positional[1],
              merged_df |-> None, sorted_list |-> None, threshold |-> None,
              catalog |-> None], c))))), c)))

\* ---- the calls explored ----
WrapNames == <<"la01", "la05">>
WrapLens == {<<4>>, <<11>>, <<4, 4>>}
WrapWindows == {6, 8}
WrapSlides == {2, 4}
WrapActiveStas == {1, 2, 3}
WrapCullTimes == {0, 30}

\* the keyword arguments of a call, with cull_dist as the test passes it or
\* without
WrapKeywords ==
    {[window |-> w, slide |-> sl, active_stas |-> a, cull_time |-> ct, plot |-> pl] :
        w \in WrapWindows, sl \in WrapSlides, a \in WrapActiveStas,
        ct \in WrapCullTimes, pl \in BOOLEAN}
    \cup
    {[window |-> w, slide |-> sl, active_stas |-> a, cull_time |-> ct, plot |-> pl,
      cull_dist |-> 0] :
        w \in WrapWindows, sl \in WrapSlides, a \in WrapActiveStas,
        ct \in WrapCullTimes, pl \in BOOLEAN}

\* a call full_catalog_run(cats, years, **kw) on Datastreams after findgaps
InitWrapper ==
    /\ \E n \in 1..Len(WrapNames) : \E lens \in WrapLens : \E kw \in WrapKeywords :
          call = [positional |-> <<[i \in 1..n |-> StationOf(WrapNames[i], 15, lens)],
                                   <<"2010", "2011">>>>,
                  kw |-> kw]
    /\ stages = <<>>
    /\ wrapErr = "none"
    /\ wrapRet = None
    /\ wrapPc = "called"
    /\ stas = <<>>
    /\ IdleDs
    /\ IdleLls
    /\ IdleMg
    /\ IdleNd
    /\ IdleEv
    /\ IdleSit

FullCatalogRun ==
    /\ wrapPc = "called"
    /\ \E r \in {FullCatalogRunResult(call)} :
          /\ stages' = r.stages
          /\ wrapErr' = r.err
          /\ wrapRet' = IF r.err = "none" THEN r.catalog ELSE None
          /\ stas' = r.stas
          /\ merged' = r.merged_df
          /\ sorted' = r.sorted_list
    /\ wrapPc' = "done"
    /\ UNCHANGED <<call, dsVars, llsVars, mergeErr, mgPc, min_sta, df_no_data, ndErr, ndPc,
                   evVars, sitVars>>

NextWrapper == FullCatalogRun

SpecWrapper == InitWrapper /\ [][NextWrapper]_vars

\* Claims about full_catalog_run

\* the window and slide of the call are accepted for its 15-second stations
ValidWindow == call.kw.slide > 0 /\ call.kw.window % call.kw.slide = 0

AllStages == <<"lls_detection", "merge", "on_off_list", "no_data_csv", "pick_events",
               "make_catalog", "save_catalog">>

\* C11: a call with valid window and slide and the keyword arguments of the
\* test (cull_dist among them) completes the stage calls lls_detection, merge,
\* on_off_list, no_data_csv, pick_events, make_catalog, save_catalog in this
\* order, raises nothing and returns a catalog.
C11_StagesRunInOrder ==
    (wrapPc = "done" /\ ValidWindow /\ "cull_dist" \in DOMAIN call.kw) =>
        /\ wrapErr = "none"
        /\ SelectSeq(stages, LAMBDA fn : fn \in Range(AllStages)) = AllStages

\* C12: the active_stas the caller gives is the value passed to pick_events and
\* the cull_time the caller gives is the value passed to make_catalog, and both
\* calls are made.
C12_CallerParametersApplied ==
    wrapPc = "done" =>
        /\ ActiveStasPassed = call.kw.active_stas
        /\ CullTimePassed = call.kw.cull_time
        /\ "pick_events" \in Range(stages)
        /\ "make_catalog" \in Range(stages)


-----------------------------------------------------------------------------
\* set_interpolation_time

\* the truth value of a string: false only for the empty string
Truthy(str) == str # ""

\* line 1087-1095: the parenthesised test.  Each operand of `or` but the last
\* is a string literal on its own; only the last is a membership test.
FirstTest(years) ==
    \/ Truthy("2008")
    \/ Truthy("2009")
    \/ Truthy("2010")
    \/ Truthy("2011")
    \/ Truthy("2012")
    \/ Truthy("2013")
    \/ "2014_30Sec" \in Range(years)

\* line 1097: "2010_30sec" in years
SecondTest(years) == "2010_30sec" \in Range(years)

\* set_interpolation_time(sta, years): <<interpolation_time, run>>
SetInterpolationTimeResult(sta, years) ==
    LET interpolation_time_0 == 15
        run == TRUE
    IN  IF sta = "la09" /\ FirstTest(years) THEN <<30, run>>
        ELSE IF sta = "la09" /\ SecondTest(years) THEN <<30, run>>
        ELSE <<interpolation_time_0, run>>

\* ---- the calls explored ----
MaxYears == 2
SitStations == {"la01", "la02", "la09"}
YearLabels == {"2008", "2010", "2010_30sec", "2014_30Sec", "2015", "2016"}

InitSit ==
    /\ \E name \in SitStations : \E ys \in SeqsOf(YearLabels, 1, MaxYears) :
          sit = [sta |-> name, years |-> ys, pc |-> "called"]
    /\ stas = <<>>
    /\ IdleDs
    /\ IdleLls
    /\ IdleMg
    /\ IdleNd
    /\ IdleEv
    /\ IdleWr

SetInterpolationTime ==
    /\ sit # None
    /\ sit.pc = "called"
    /\ \E r \in {SetInterpolationTimeResult(sit.sta, sit.years)} :
          sit' = [sta |-> sit.sta, years |-> sit.years, pc |-> "returned",
                  interpolation_time |-> r[1], run |-> r[2]]
    /\ UNCHANGED <<dsVars, stas, llsVars, mgVars, ndVars, evVars, wrVars>>

NextSit == SetInterpolationTime

SpecSit == InitSit /\ [][NextSit]_vars

\* the year labels of the 30-second data the function lists
ThirtySecondLabels ==
    {"2008", "2009", "2010", "2011", "2012", "2013", "2014_30Sec", "2010_30sec"}

SitReturned == sit # None /\ sit.pc = "returned"

\* C30: set_interpolation_time returns 30 exactly when sta is la09 and years
\* holds one of the listed 30-second year labels, 15 in every other case, and
\* always run = True.
C30_ThirtyOnlyForListedYears ==
    SitReturned =>
        /\ sit.run = TRUE
        /\ sit.interpolation_time =
               IF sit.sta = "la09" /\ Range(sit.years) \cap ThirtySecondLabels # {}
               THEN 30 ELSE 15

=============================================================================
